---- MODULE Spec2Model ----
(***************************************************************************)
(* A model of the gym dashboard's data normalization and metrics code:     *)
(* src/src/app.py (load_sheet_data, combine_workout_data, calculate_streak,*)
(* calculate_pr_table) and src/src/garmin_integration.py                   *)
(* (GarminDataLoader.get_combined_workout_data).                           *)
(*                                                                         *)
(* Text.  A Python str is a sequence of symbols.  A symbol is one          *)
(* character ("1", ".", ";", " ", "x", "-", "+") or one of the words       *)
(* "Body", "body", "Band", "band" written as a unit.  No other symbol of   *)
(* the alphabet holds a letter of these words, so the substring tests      *)
(* 'body' in w and 'band' in w are tests for a symbol of the sequence.     *)
(*                                                                         *)
(* Numbers.  A number is a decimal [m, e] standing for m / 10^e, kept      *)
(* normalised (e = 0 or m not a multiple of 10), so that equal numbers are *)
(* equal records.  Python's int and float are both decimals here: 70 and   *)
(* 70.0 are the same value, as they are under ==.  Binary rounding of      *)
(* float products and sums is not modelled.                                *)
(*                                                                         *)
(* Cells.  A cell of a table column is a text, a number or NaN/None,       *)
(* [t, s, n] with t in {"str", "num", "nan"}.  gspread's get_all_records   *)
(* hands a cell that reads as an integer over as an int and every other    *)
(* cell as a str.                                                          *)
(*                                                                         *)
(* Dates.  A date is the number of its day, day 0 being Monday 16 December *)
(* 2024.  The sheet's Date text is taken to be well-formed DD/MM/YYYY and  *)
(* is written as the day it names.                                         *)
(*                                                                         *)
(* Left out: the 'Time seconds'/duration column, the tracker columns that  *)
(* no function reads (exercise_category, set_number, duration,             *)
(* activity_id), the choice of data sources (both are selected), the       *)
(* network calls and the rendering; of a chart only its title and the x    *)
(* and y of its traces are kept.                                           *)
(***************************************************************************)
EXTENDS Integers, Sequences, FiniteSets, TLC

VARIABLES
    pc,            \* the step the run is at
    data,          \* sheet.get_all_records(): the raw sheet rows
    activities,    \* the tracker's activities, each with its exercise sets
    sheets_data,   \* what load_sheet_data returned
    sheet_error,   \* load_sheet_data caught an exception (st.error shown)
    garmin_data,   \* what get_combined_workout_data returned
    workout_data,  \* the merged table
    raised,        \* the exception that left the last call, or "none"
    filtered_data, \* the date-bounded view given to the metrics
    streak,        \* calculate_streak's first result
    weekly_counts, \* calculate_streak's second result
    max_weight_prs,\* calculate_pr_table's first result
    max_volume_prs,\* calculate_pr_table's second result
    progress_chart \* what create_progress_chart returned

vars == <<pc, data, activities, sheets_data, sheet_error, garmin_data,
          workout_data, raised, filtered_data, streak, weekly_counts,
          max_weight_prs, max_volume_prs,
          progress_chart>>

-----------------------------------------------------------------------------
(* Bounds of the model *)

\* longest generated notation, in symbols
MaxLen == 3
\* most rows of a generated sheet table in the merge and metrics inputs
MaxSheetRows == 2
\* most sets of the generated tracker activity
MaxTrackerSets == 2
\* number of calendar weeks the streak inputs span
MaxWeeks == 4

-----------------------------------------------------------------------------
(* Numbers *)

RECURSIVE Pow10(_)
Pow10(k) == IF k = 0 THEN 1 ELSE 10 * Pow10(k - 1)

RECURSIVE Norm(_)
Norm(d) == IF d.e > 0 /\ d.m % 10 = 0
           THEN Norm([m |-> d.m \div 10, e |-> d.e - 1])
           ELSE d

Dec(m, e) == Norm([m |-> m, e |-> e])
Int2Dec(i) == [m |-> i, e |-> 0]

DecMul(a, b) == Norm([m |-> a.m * b.m, e |-> a.e + b.e])

DecAdd(a, b) ==
    LET e == IF a.e > b.e THEN a.e ELSE b.e
    IN  Norm([m |-> a.m * Pow10(e - a.e) + b.m * Pow10(e - b.e), e |-> e])

DecLess(a, b) ==
    LET k == IF a.e < b.e THEN a.e ELSE b.e
    IN  a.m * Pow10(b.e - k) < b.m * Pow10(a.e - k)

\* sum(xs): Python's sum starts from 0
RECURSIVE py_sum(_)
py_sum(xs) == IF xs = <<>> THEN Int2Dec(0)
              ELSE DecAdd(py_sum(SubSeq(xs, 1, Len(xs) - 1)), xs[Len(xs)])

\* max(xs) of a non-empty list: the first of the largest elements
RECURSIVE py_max(_)
py_max(xs) == IF Len(xs) = 1 THEN xs[1]
              ELSE LET m == py_max(SubSeq(xs, 1, Len(xs) - 1))
                   IN  IF DecLess(m, xs[Len(xs)]) THEN xs[Len(xs)] ELSE m

-----------------------------------------------------------------------------
(* Text *)

DigitSyms == {"0", "1", "2", "3", "4", "5", "6", "7", "8", "9"}

DigitVal(c) ==
    CASE c = "0" -> 0 [] c = "1" -> 1 [] c = "2" -> 2 [] c = "3" -> 3
      [] c = "4" -> 4 [] c = "5" -> 5 [] c = "6" -> 6 [] c = "7" -> 7
      [] c = "8" -> 8 [] c = "9" -> 9

DigitSym(d) ==
    CASE d = 0 -> "0" [] d = 1 -> "1" [] d = 2 -> "2" [] d = 3 -> "3"
      [] d = 4 -> "4" [] d = 5 -> "5" [] d = 6 -> "6" [] d = 7 -> "7"
      [] d = 8 -> "8" [] d = 9 -> "9"

\* str.lower(), symbol by symbol
LowerSym(c) == CASE c = "Body" -> "body" [] c = "Band" -> "band" [] OTHER -> c
lower(s) == [i \in DOMAIN s |-> LowerSym(s[i])]

\* kw in s, for kw one of the words "body", "band"
contains(s, kw) == \E i \in DOMAIN s : s[i] = kw

\* str.strip(): leading and trailing whitespace removed
RECURSIVE lstrip(_)
lstrip(s) == IF s # <<>> /\ s[1] = " " THEN lstrip(Tail(s)) ELSE s
RECURSIVE rstrip(_)
rstrip(s) == IF s # <<>> /\ s[Len(s)] = " "
             THEN rstrip(SubSeq(s, 1, Len(s) - 1)) ELSE s
strip(s) == rstrip(lstrip(s))

\* str.split(';'): always at least one item; "" splits to [""]
RECURSIVE split(_)
split(s) ==
    IF \A i \in DOMAIN s : s[i] # ";" THEN <<s>>
    ELSE LET p == CHOOSE i \in DOMAIN s :
                      s[i] = ";" /\ \A j \in 1..(i - 1) : s[j] # ";"
         IN  <<SubSeq(s, 1, p - 1)>> \o split(SubSeq(s, p + 1, Len(s)))

\* str.isdigit(): non-empty and every character a digit
isdigit(s) == s # <<>> /\ \A i \in DOMAIN s : s[i] \in DigitSyms

\* w.replace('.', '')
replace_dots(s) == SelectSeq(s, LAMBDA c : c # ".")

\* the value of a run of digits, most significant first (0 for no digits)
RECURSIVE DigitsVal(_)
DigitsVal(s) == IF s = <<>> THEN 0
                ELSE 10 * DigitsVal(SubSeq(s, 1, Len(s) - 1)) + DigitVal(s[Len(s)])

\* int(r) on a string that passed isdigit()
py_int(s) == DigitsVal(s)

\* float(w) on a string of digits and dots with at least one digit: the
\* number when there is at most one dot, ValueError otherwise ("1.2.3")
py_float(s) ==
    LET dots == {i \in DOMAIN s : s[i] = "."}
    IN  IF Cardinality(dots) > 1
        THEN [ok |-> FALSE, v |-> Int2Dec(0)]
        ELSE LET p == IF dots = {} THEN Len(s) + 1 ELSE CHOOSE i \in dots : TRUE
                 frac == SubSeq(s, p + 1, Len(s))
             IN  [ok |-> TRUE,
                  v  |-> Dec(DigitsVal(SubSeq(s, 1, p - 1)) * Pow10(Len(frac))
                             + DigitsVal(frac), Len(frac))]

\* str(i) of a non-negative int
RECURSIVE IntStr(_)
IntStr(i) == IF i < 10 THEN <<DigitSym(i)>>
             ELSE IntStr(i \div 10) \o <<DigitSym(i % 10)>>

-----------------------------------------------------------------------------
(* Cells *)

Str(s) == [t |-> "str", s |-> s, n |-> Int2Dec(0)]
Num(d) == [t |-> "num", s |-> <<>>, n |-> d]
NaN == [t |-> "nan", s |-> <<>>, n |-> Int2Dec(0)]

\* pd.isna(x) / pd.notnull(x)
isna(x) == x.t = "nan"

\* str(x) of a cell that is not NaN; the numeric cells of a sheet are ints
py_str(x) == IF x.t = "str" THEN x.s ELSE IntStr(x.n.m)

\* the test both parsers start with: pd.isna(x) or str(x).strip() == ''
blank(x) == isna(x) \/ strip(py_str(x)) = <<>>

-----------------------------------------------------------------------------
(* Tables *)

\* a pandas DataFrame: its column names and its rows in index order
DataFrame(cols, rows) == [cols |-> cols, rows |-> rows]

\* pd.DataFrame(): no columns, no rows
EmptyDataFrame == DataFrame({}, <<>>)

\* df.empty: some axis has length 0
empty(df) == df.cols = {} \/ df.rows = <<>>

\* the columns load_sheet_data's table has ('Time seconds' is not modelled)
SheetColumns ==
    {"Date", "Exercise", "Reps", "Weight", "date", "sets", "reps_list",
     "weights_list", "volume_per_set", "total_volume", "max_weight"}

-----------------------------------------------------------------------------
(* Notation parser: the functions nested in load_sheet_data *)

\* base weight of the single 'Body' value given for several sets
BroadcastBodyWeight == 70
\* base weight of a 'body' item in the per-item loop
BodyWeight == 120
\* added when the item also names a band
BandResistance == 10

\* the list comprehension of parse_reps with the items taken as they are,
\* not stripped
RECURSIVE reps_items_unstripped(_)
reps_items_unstripped(items) ==
    IF items = <<>> THEN <<>>
    ELSE (IF isdigit(items[1]) THEN <<py_int(items[1])>> ELSE <<>>)
         \o reps_items_unstripped(Tail(items))

\* [int(r.strip()) for r in items if r.strip().isdigit()]
RECURSIVE reps_items(_)
reps_items(items) ==
    IF items = <<>> THEN <<>>
    ELSE (IF isdigit(strip(items[1])) THEN <<py_int(strip(items[1]))>> ELSE <<>>)
         \o reps_items(Tail(items))

parse_reps(x) ==
    IF blank(x) THEN <<>> ELSE reps_items(split(py_str(x)))

\* [v] * n
RECURSIVE repeat(_, _)
repeat(v, n) == IF n <= 0 THEN <<>> ELSE <<v>> \o repeat(v, n - 1)

\* the loop "for w in weight_items": the list built so far is returned with
\* ok, and a float() that raises ValueError ends the loop with ok = FALSE
RECURSIVE weights_loop(_, _)
weights_loop(items, weights) ==
    IF items = <<>> THEN [ok |-> TRUE, v |-> weights]
    ELSE LET w == lower(strip(items[1]))
         IN  IF contains(w, "body")
             THEN weights_loop(Tail(items),
                      Append(weights,
                             IF contains(w, "band")
                             THEN Int2Dec(BodyWeight + BandResistance)
                             ELSE Int2Dec(BodyWeight)))
             ELSE IF isdigit(replace_dots(w))
             THEN IF py_float(w).ok
                  THEN weights_loop(Tail(items), Append(weights, py_float(w).v))
                  ELSE [ok |-> FALSE, v |-> <<>>]
             ELSE weights_loop(Tail(items), weights)

\* parse_weights without the branch for a single 'Body' value: every
\* notation goes through the per-item loop
parse_weights_no_broadcast(x, num_sets) ==
    IF blank(x) THEN [ok |-> TRUE, v |-> <<>>]
    ELSE weights_loop(split(py_str(x)), <<>>)

parse_weights(x, num_sets) ==
    IF blank(x) THEN [ok |-> TRUE, v |-> <<>>]
    ELSE LET weight_items == split(py_str(x))
         IN  IF /\ Len(weight_items) = 1
                /\ contains(lower(weight_items[1]), "body")
                /\ num_sets > 1
             THEN IF contains(lower(weight_items[1]), "band")
                  THEN [ok |-> TRUE,
                        v  |-> repeat(Int2Dec(BroadcastBodyWeight + BandResistance),
                                      num_sets)]
                  ELSE [ok |-> TRUE,
                        v  |-> repeat(Int2Dec(BroadcastBodyWeight), num_sets)]
             ELSE weights_loop(weight_items, <<>>)

\* df['sets']: the number of ';'-separated items of Reps, 0 for a blank cell
count_sets(x) == IF blank(x) THEN 0 ELSE Len(split(py_str(x)))

-----------------------------------------------------------------------------
(* Set normalizer *)

py_min(a, b) == IF a < b THEN a ELSE b

\* [r * w for r, w in zip(reps_list, weights_list)]
zip_volume(reps_list, weights_list) ==
    [i \in 1..py_min(Len(reps_list), Len(weights_list)) |->
        DecMul(Int2Dec(reps_list[i]), weights_list[i])]

\* the last weight of the list in place of the largest
max_or_zero_last(x) == IF x # <<>> THEN x[Len(x)] ELSE Int2Dec(0)

\* max(x) if x else 0
max_or_zero(x) == IF x # <<>> THEN py_max(x) ELSE Int2Dec(0)

\* one row of load_sheet_data's table, from one raw record.  Date holds a
\* well-formed DD/MM/YYYY text, written as the number of the day it names,
\* and date is the day pd.to_datetime reads from it.
sheet_row(r) ==
    LET sets == count_sets(r.Reps)
        reps_list == parse_reps(r.Reps)
        weights_list == parse_weights(r.Weight, sets).v
        volume_per_set == zip_volume(reps_list, weights_list)
    IN  [Date |-> r.Date, Exercise |-> r.Exercise, Reps |-> r.Reps,
         Weight |-> r.Weight, date |-> r.Date.n.m,
         sets |-> Num(Int2Dec(sets)),
         reps_list |-> reps_list, weights_list |-> weights_list,
         volume_per_set |-> volume_per_set,
         total_volume |-> py_sum(volume_per_set),
         max_weight |-> max_or_zero(weights_list)]

\* load_sheet_data, from the records get_all_records returned.  The body is
\* one try block: with no records the frame has no 'Date' column (KeyError),
\* and a ValueError of parse_weights on any row ends the whole load; either
\* way the except branch reports the error and returns pd.DataFrame().
load_sheet_data(records) ==
    IF records = <<>>
    THEN [df |-> EmptyDataFrame, error |-> TRUE]
    ELSE IF \E i \in DOMAIN records :
                ~parse_weights(records[i].Weight, count_sets(records[i].Reps)).ok
    THEN [df |-> EmptyDataFrame, error |-> TRUE]
    ELSE [df |-> DataFrame(SheetColumns,
                           [i \in DOMAIN records |-> sheet_row(records[i])]),
          error |-> FALSE]

-----------------------------------------------------------------------------
(* Tracker source: GarminDataLoader *)

\* the columns of the tracker table that are modelled (exercise_category,
\* set_number, duration and activity_id are carried along unread)
GarminColumns == {"exercise_name", "reps", "weight", "weight_unit", "date"}

\* _process_exercise_sets: one row per set of the activity
process_exercise_sets(sets_data) ==
    [i \in DOMAIN sets_data |->
        [exercise_name |-> sets_data[i].exerciseName,
         reps          |-> sets_data[i].repetitionCount,
         weight        |-> sets_data[i].weightValue,
         weight_unit   |-> sets_data[i].weightUnit]]

\* the rows of the strength activities, each set stamped with its
\* activity's date, in activity order (pd.concat(all_exercises))
RECURSIVE all_exercises(_)
all_exercises(acts) ==
    IF acts = <<>> THEN <<>>
    ELSE LET a == acts[1]
             sets == process_exercise_sets(a.exerciseSets)
         IN  (IF a.typeKey = "STRENGTH_TRAINING"
              THEN [i \in DOMAIN sets |->
                       [exercise_name |-> sets[i].exercise_name,
                        reps |-> sets[i].reps, weight |-> sets[i].weight,
                        weight_unit |-> sets[i].weight_unit, date |-> a.date]]
              ELSE <<>>)
             \o all_exercises(Tail(acts))

\* combined_df.loc[mask, 'weight'] * 0.453592 with mask = weight_unit == 'POUND'
convert_weight(r) ==
    IF r.weight_unit = "POUND" /\ ~isna(r.weight)
    THEN [r EXCEPT !.weight = Num(DecMul(r.weight.n, Dec(453592, 6)))]
    ELSE r

get_combined_workout_data(acts) ==
    LET rows == all_exercises(acts)
    IN  IF rows = <<>> THEN EmptyDataFrame
        ELSE DataFrame(GarminColumns, [i \in DOMAIN rows |-> convert_weight(rows[i])])

-----------------------------------------------------------------------------
(* Source merger: combine_workout_data *)

\* the lists made of one item whether or not the cell is null
garmin_processed_row_one_item(g) ==
    LET weights_list == <<g.weight.n>>
        reps_list == <<g.reps.n.m>>
        volume_per_set == zip_volume(reps_list, weights_list)
    IN  [Exercise |-> g.exercise_name, Reps |-> g.reps, Weight |-> g.weight,
         weight_unit |-> g.weight_unit, date |-> g.date,
         weights_list |-> weights_list, reps_list |-> reps_list,
         volume_per_set |-> volume_per_set,
         total_volume |-> py_sum(volume_per_set),
         max_weight |-> max_or_zero(weights_list)]

\* the tracker table renamed and given the list, volume and max columns
garmin_processed_row(g) ==
    LET weights_list == IF ~isna(g.weight) THEN <<g.weight.n>> ELSE <<>>
        reps_list == IF ~isna(g.reps) THEN <<g.reps.n.m>> ELSE <<>>
        volume_per_set == zip_volume(reps_list, weights_list)
    IN  [Exercise |-> g.exercise_name, Reps |-> g.reps, Weight |-> g.weight,
         weight_unit |-> g.weight_unit, date |-> g.date,
         weights_list |-> weights_list, reps_list |-> reps_list,
         volume_per_set |-> volume_per_set,
         total_volume |-> py_sum(volume_per_set),
         max_weight |-> max_or_zero(weights_list)]

garmin_processed_columns ==
    ((GarminColumns \ {"exercise_name", "weight", "reps"})
        \cup {"Exercise", "Weight", "Reps"})
    \cup {"weights_list", "reps_list", "volume_per_set", "total_volume", "max_weight"}

\* a tracker row as pd.concat lays it out under the sheet table's columns:
\* the shared columns keep their values, the sheet-only ones are NaN
concat_row(p) ==
    [Date |-> NaN, Exercise |-> p.Exercise, Reps |-> p.Reps, Weight |-> p.Weight,
     date |-> p.date, sets |-> NaN,
     reps_list |-> p.reps_list, weights_list |-> p.weights_list,
     volume_per_set |-> p.volume_per_set, total_volume |-> p.total_volume,
     max_weight |-> p.max_weight]

\* the orders sort_values('date') can leave the rows in: ascending by date,
\* rows of one date in any order (the default sort is not stable)
date_orders(rows) ==
    {o \in Permutations(DOMAIN rows) :
        \A i, j \in DOMAIN rows : i < j => rows[o[i]].date <= rows[o[j]].date}

\* the key of drop_duplicates with 'Weight' left out of the subset
dedup_key_no_weight(r) == <<r.date, r.Exercise, r.Reps>>

dedup_key(r) == <<r.date, r.Exercise, r.Reps, r.Weight>>

\* drop_duplicates(subset=[date, Exercise, Reps, Weight], keep='last')
drop_duplicates(rows) ==
    LET keep == {i \in DOMAIN rows :
                    \A j \in DOMAIN rows : j > i => dedup_key(rows[j]) # dedup_key(rows[i])}
        pick[k \in 0..Len(rows)] ==
            IF k = 0 THEN <<>>
            ELSE IF k \in keep THEN Append(pick[k - 1], rows[k]) ELSE pick[k - 1]
    IN  pick[Len(rows)]

\* the concatenated rows, before the sort
concat_rows(sheets_df, garmin_df) ==
    sheets_df.rows \o
    [i \in DOMAIN garmin_df.rows |-> concat_row(garmin_processed_row(garmin_df.rows[i]))]

\* the columns of the concatenation: the sheet table's, and of the tracker
\* table's those the sheet table has too
concat_columns(sheets_df) ==
    sheets_df.cols \cup (sheets_df.cols \cap garmin_processed_columns)

\* combine_workout_data(sheets_df, garmin_df), with the order the sort left
\* the rows in.  A sheet table without columns shares none with the tracker
\* table, so the concatenation has no 'date' column and sort_values raises
\* KeyError.
combine_workout_data(sheets_df, garmin_df, order) ==
    IF empty(garmin_df)
    THEN [df |-> sheets_df, raised |-> "none"]
    ELSE IF ~({"date", "Exercise", "Reps", "Weight"} \subseteq concat_columns(sheets_df))
    THEN [df |-> EmptyDataFrame, raised |-> "KeyError"]
    ELSE LET rows == concat_rows(sheets_df, garmin_df)
         IN  [df |-> DataFrame(concat_columns(sheets_df),
                               drop_duplicates([i \in DOMAIN rows |-> rows[order[i]]])),
              raised |-> "none"]

-----------------------------------------------------------------------------
(* Metrics engine *)

\* a week counts from this many rows on
StreakThreshold == 5

\* date.isocalendar() of day d, day 0 being Monday 16 December 2024, the
\* first day of ISO week 51 of 2024; 2024 has 52 ISO weeks, and the model's
\* days stay within ISO year 2025 after them
isocalendar(d) ==
    LET k == d \div 7
    IN  IF k < 2 THEN [year |-> 2024, week |-> 51 + k]
        ELSE [year |-> 2025, week |-> k - 1]

week_before(a, b) == a.year < b.year \/ (a.year = b.year /\ a.week < b.week)

\* the elements of a finite set of (year, week) keys in ascending order
RECURSIVE sorted_weeks(_)
sorted_weeks(S) ==
    IF S = {} THEN <<>>
    ELSE LET lo == CHOOSE a \in S : \A b \in S \ {a} : week_before(a, b)
         IN  <<lo>> \o sorted_weeks(S \ {lo})

\* df.groupby(['year', 'week']).size().reset_index(name='workout_count'):
\* one row per week that has rows, in ascending key order, with its row count
group_weeks(rows) ==
    LET keys == sorted_weeks({isocalendar(rows[i].date) : i \in DOMAIN rows})
    IN  [k \in DOMAIN keys |->
            [year |-> keys[k].year, week |-> keys[k].week,
             workout_count |->
                 Cardinality({i \in DOMAIN rows : isocalendar(rows[i].date) = keys[k]})]]

\* the loop over the weekly rows returning the run in progress at the end
\* in place of the longest run seen
streak_loop_current(counts) ==
    LET step[k \in 0..Len(counts)] ==
            IF k = 0 THEN 0
            ELSE IF counts[k].workout_count >= StreakThreshold THEN step[k - 1] + 1
            ELSE 0
    IN  step[Len(counts)]

\* the loop over the weekly rows: [streak, current_streak] after row k
streak_loop(counts) ==
    LET step[k \in 0..Len(counts)] ==
            IF k = 0 THEN [streak |-> 0, current_streak |-> 0]
            ELSE IF counts[k].workout_count >= StreakThreshold
            THEN LET c == step[k - 1].current_streak + 1
                 IN  [streak |-> IF step[k - 1].streak > c THEN step[k - 1].streak ELSE c,
                      current_streak |-> c]
            ELSE [streak |-> step[k - 1].streak, current_streak |-> 0]
    IN  step[Len(counts)].streak

\* df['week'] = ..., df['year'] = ...: the two columns are set on the table
\* that was passed in
with_week_year(df) ==
    DataFrame(df.cols \cup {"week", "year"},
              [i \in DOMAIN df.rows |->
                  [week |-> isocalendar(df.rows[i].date).week,
                   year |-> isocalendar(df.rows[i].date).year] @@ df.rows[i]])

\* calculate_streak(df): the results, the table as the call leaves it, and
\* the exception if df has no 'date' column
calculate_streak(df) ==
    IF "date" \notin df.cols
    THEN [raised |-> "KeyError", df |-> df, streak |-> 0, weekly_counts |-> <<>>]
    ELSE LET counts == group_weeks(df.rows)
         IN  [raised |-> "none", df |-> with_week_year(df),
              streak |-> streak_loop(counts), weekly_counts |-> counts]

\* the rows collected in prs: one per (reps, weight) pair of every row
RECURSIVE pr_rows(_)
pr_rows(rows) ==
    IF rows = <<>> THEN <<>>
    ELSE LET r == rows[1]
             n == py_min(Len(r.reps_list), Len(r.weights_list))
         IN  [i \in 1..n |->
                 [Exercise |-> r.Exercise, Reps |-> r.reps_list[i],
                  Weight |-> r.weights_list[i], Date |-> r.date,
                  Volume |-> DecMul(Int2Dec(r.reps_list[i]), r.weights_list[i])]]
             \o pr_rows(Tail(rows))

\* the first row of each exercise after an ascending sort by Weight
first_by_weight_ascending(prs, ex) ==
    {prs[i] : i \in {i \in DOMAIN prs :
        /\ prs[i].Exercise = ex
        /\ \A j \in DOMAIN prs :
              prs[j].Exercise = ex => ~DecLess(prs[j].Weight, prs[i].Weight)}}

\* what sort_values(col, ascending=False).groupby('Exercise').first() can
\* give for exercise ex (no value of pr_df is null): the first row of ex in
\* descending order of col, that is a row of ex that no row of ex exceeds in
\* col; which of several such rows comes first is up to the sort, which is
\* not stable
first_by_weight(prs, ex) ==
    {prs[i] : i \in {i \in DOMAIN prs :
        /\ prs[i].Exercise = ex
        /\ \A j \in DOMAIN prs :
              prs[j].Exercise = ex => ~DecLess(prs[i].Weight, prs[j].Weight)}}

first_by_volume(prs, ex) ==
    {prs[i] : i \in {i \in DOMAIN prs :
        /\ prs[i].Exercise = ex
        /\ \A j \in DOMAIN prs :
              prs[j].Exercise = ex => ~DecLess(prs[i].Volume, prs[j].Volume)}}

pr_exercises(prs) == {prs[i].Exercise : i \in DOMAIN prs}

pr_set(prs) == {prs[i] : i \in DOMAIN prs}

\* the tables max_weight_prs can be: one row per exercise, indexed by it
max_weight_tables(prs) ==
    {t \in [pr_exercises(prs) -> pr_set(prs)] :
        \A ex \in pr_exercises(prs) : t[ex] \in first_by_weight(prs, ex)}

max_volume_tables(prs) ==
    {t \in [pr_exercises(prs) -> pr_set(prs)] :
        \A ex \in pr_exercises(prs) : t[ex] \in first_by_volume(prs, ex)}

\* calculate_pr_table(df) raises KeyError when df has no 'Exercise' or list column, or when prs is empty
\* (pd.DataFrame([]) has no 'Reps' column).
pr_table_raises(df) ==
    \/ ~({"Exercise", "reps_list", "weights_list", "date"} \subseteq df.cols)
    \/ pr_rows(df.rows) = <<>>

\* no chart: create_progress_chart returned None, or was not called yet
NoChart == [figure |-> FALSE, title |-> "None", max_weight |-> <<>>, total_volume |-> <<>>]

\* the exercises of the table's rows
exercise_unique(df) == {df.rows[i].Exercise : i \in DOMAIN df.rows}

\* what main's select box can hand over: an exercise of the filtered table,
\* or None (written "None") when the table has none
selectable_exercises(df) ==
    IF exercise_unique(df) = {} THEN {"None"} ELSE exercise_unique(df)

\* the x and y of a go.Scatter trace of column col: the dates and the
\* column's values of exercise_data, row by row
scatter(exercise_data, col) ==
    [i \in DOMAIN exercise_data |->
        [x |-> exercise_data[i].date, y |-> exercise_data[i][col]]]

\* create_progress_chart(df, exercise_name): None, or the figure with its
\* title (the exercise) and its two traces; exercise_data is the rows of the
\* exercise as the table has them
create_progress_chart(df, exercise_name) ==
    IF empty(df) \/ exercise_name \notin exercise_unique(df)
    THEN NoChart
    ELSE LET exercise_data == SelectSeq(df.rows, LAMBDA r : r.Exercise = exercise_name)
         IN  [figure |-> TRUE, title |-> exercise_name,
              max_weight |-> scatter(exercise_data, "max_weight"),
              total_volume |-> scatter(exercise_data, "total_volume")]

-----------------------------------------------------------------------------
(* Date filter of main *)

\* workout_data[workout_data['date'] >= start]: the rows from day lo on,
\* under the same columns
filter_rows(df, lo) ==
    DataFrame(df.cols, SelectSeq(df.rows, LAMBDA r : r.date >= lo))

-----------------------------------------------------------------------------
(* Inputs *)

\* the symbols the generated notations are written in
GenAlphabet == {"1", "2", ".", ";", " ", "x", "Body", "band"}

\* every notation of at most n symbols
Notations(n) == UNION {[1..k -> GenAlphabet] : k \in 0..n}

\* notations of the specification's examples and of hand-entered logs
ExampleNotations ==
    { <<"8", ";", "8", ";", "6", ";", ";", "x">>,
      <<"1", "3", "5", ";", "1", "5", "5", ";", "1", "7", "5">>,
      <<"Body", "+", "Band">>,
      <<"body", " ", "Band", ";", "Body">>,
      <<"1", ".", "2", ".", "3">>,
      <<"6", "2", ".", "5", "0", ";", "-", "5", ";", " ", "7", "0", " ">>,
      <<"5", ";", "1", ".", "2", ".", "3">> }

IntCell(i) == Num(Int2Dec(i))

\* the cells the parser is exercised on: texts, a missing cell, int cells
RichCells ==
    {Str(s) : s \in Notations(MaxLen) \cup ExampleNotations}
        \cup {NaN, IntCell(8), IntCell(135)}

\* Reps cells with 0, 1, 2 and 3 items
FewReps ==
    {Str(<<>>), IntCell(5), Str(<<"5", ";", "5">>), Str(<<"5", ";", "5", ";", "5">>),
     Str(<<"8", ";", "x", ";", "8">>)}

FewWeights == {Str(<<>>), Str(<<"Body">>), IntCell(135), Str(<<"1", ".", "5", ";", "2">>)}

RawRow(d, ex, reps, weight) ==
    [Date |-> IntCell(d), Exercise |-> ex, Reps |-> reps, Weight |-> weight]

\* one-row sheets whose Reps or Weight cell is any of the rich cells
ParserSheets ==
    {<<RawRow(0, "Squat", r, w)>> : r \in RichCells, w \in FewWeights}
        \cup {<<RawRow(0, "Squat", r, w)>> : r \in FewReps, w \in RichCells}

\* the rows the merge and record inputs are made of
SheetRowDomain ==
    { RawRow(0, "Squat", IntCell(5), IntCell(100)),
      RawRow(1, "Squat", IntCell(5), IntCell(100)),
      RawRow(1, "Squat", Str(<<"5", ";", "1", "0">>),
                         Str(<<"2", "2", "5", ";", "1", "3", "5">>)),
      RawRow(0, "Bench Press", Str(<<"5", ";", "5">>), Str(<<"Body">>)) }

SmallSheets == UNION {[1..k -> SheetRowDomain] : k \in 0..MaxSheetRows}

TrackerSet(reps, weight, unit) ==
    [exerciseName |-> "Squat", repetitionCount |-> reps,
     weightValue |-> weight, weightUnit |-> unit]

\* the sets a tracker activity is made of
TrackerSetDomain ==
    { TrackerSet(IntCell(5), IntCell(100), "KILOGRAM"),
      TrackerSet(IntCell(5), IntCell(100), "POUND"),
      TrackerSet(NaN, IntCell(100), "KILOGRAM"),
      TrackerSet(IntCell(5), NaN, "POUND") }

Activity(type, d, sets) ==
    [typeKey |-> type, date |-> d, exerciseSets |-> sets]

\* no activity, one strength activity on day 2 (a day no sheet row has), or
\* a run and a one-set strength activity on day 0 (a day sheet rows have)
TrackerInputs ==
    {<<>>}
      \cup {<<Activity("STRENGTH_TRAINING", 2, sets)>> :
               sets \in UNION {[1..k -> TrackerSetDomain] : k \in 0..MaxTrackerSets}}
      \cup {<<Activity("RUNNING", 0, <<>>),
              Activity("STRENGTH_TRAINING", 0, <<sets>>)>> : sets \in TrackerSetDomain}

\* the tracker inputs of the metrics runs: none, or one strength activity
MetricsTrackerInputs ==
    { <<>>,
      <<Activity("STRENGTH_TRAINING", 1,
                 <<TrackerSet(IntCell(5), IntCell(100), "KILOGRAM"),
                   TrackerSet(IntCell(5), IntCell(100), "POUND")>>)>> }

\* the row counts a generated week can have
WeekCounts == {0, StreakThreshold - 1, StreakThreshold}

\* the sheet with counts[k] one-set rows dated on the Monday or the Sunday
\* of the k-th week from day 0, week after week
RECURSIVE week_rows(_, _)
week_rows(counts, k) ==
    IF k > Len(counts) THEN <<>>
    ELSE [j \in 1..counts[k] |->
             RawRow(7 * (k - 1) + 6 * (j % 2), "Squat", IntCell(5), IntCell(100))]
         \o week_rows(counts, k + 1)

reversed(s) == [i \in DOMAIN s |-> s[Len(s) + 1 - i]]

\* sheets spanning MaxWeeks weeks across the turn of the ISO year, rows in
\* ascending and in descending date order, and the specification's example
StreakSheets ==
    LET vectors == [1..MaxWeeks -> WeekCounts] \cup {<<5, 5, 3, 5, 5, 5>>}
    IN  {week_rows(c, 1) : c \in vectors} \cup {reversed(week_rows(c, 1)) : c \in vectors}

\* a row holding three sets in its notation
ThreeSetRow(d) ==
    RawRow(d, "Squat", Str(<<"5", ";", "5", ";", "5">>),
                       Str(<<"1", "0", ";", "2", "0", ";", "1", "0">>))

\* sheets whose weeks hold rows of several sets: two rows of three sets in
\* one week, and that week before and after a week without rows and a week
\* of two more such rows
MultiSetSheets ==
    { <<ThreeSetRow(0), ThreeSetRow(1)>>,
      <<ThreeSetRow(0), ThreeSetRow(1), ThreeSetRow(14), ThreeSetRow(15)>>,
      <<ThreeSetRow(14), ThreeSetRow(1), ThreeSetRow(0)>> }

\* sheets none of whose rows has a (reps, weight) pair: no Reps, or a Weight
\* without a number
NoPairSheets ==
    { <<RawRow(0, "Plank", Str(<<>>), Str(<<>>))>>,
      <<RawRow(0, "Plank", Str(<<>>), IntCell(10)),
        RawRow(1, "Squat", Str(<<"5", ";", "5">>), Str(<<"x">>))>> }

\* the first days main's date filter is exercised with
FilterStarts == {0, 7, 700}

-----------------------------------------------------------------------------
(* The run: the loaders, the merge, the filter, the metrics *)

NoPrs == <<>>

InitRest ==
    /\ pc = "start"
    /\ sheets_data = EmptyDataFrame
    /\ sheet_error = FALSE
    /\ garmin_data = EmptyDataFrame
    /\ workout_data = EmptyDataFrame
    /\ raised = "none"
    /\ filtered_data = EmptyDataFrame
    /\ streak = 0
    /\ weekly_counts = <<>>
    /\ max_weight_prs = NoPrs
    /\ max_volume_prs = NoPrs
    /\ progress_chart = NoChart

InitSheet ==
    /\ data \in ParserSheets
    /\ activities = <<>>
    /\ InitRest

InitMerge ==
    /\ data \in SmallSheets
    /\ activities \in TrackerInputs
    /\ InitRest

InitMetrics ==
    /\ \/ data \in StreakSheets \cup MultiSetSheets \cup NoPairSheets /\ activities = <<>>
       \/ data \in SmallSheets /\ activities \in MetricsTrackerInputs
    /\ InitRest

\* load_sheet_data()
LoadSheetData ==
    /\ pc = "start"
    /\ sheets_data' = load_sheet_data(data).df
    /\ sheet_error' = load_sheet_data(data).error
    /\ pc' = "sheet_loaded"
    /\ UNCHANGED <<data, activities, garmin_data, workout_data, raised,
                   filtered_data, streak, weekly_counts, max_weight_prs,
                   max_volume_prs,
                   progress_chart>>

\* load_garmin_data(): get_combined_workout_data over the fetched activities
LoadGarminData ==
    /\ pc = "sheet_loaded"
    /\ garmin_data' = get_combined_workout_data(activities)
    /\ pc' = "garmin_loaded"
    /\ UNCHANGED <<data, activities, sheets_data, sheet_error, workout_data,
                   raised, filtered_data, streak, weekly_counts,
                   max_weight_prs, max_volume_prs,
                   progress_chart>>

\* combine_workout_data(sheets_data, garmin_data) called on the two tables
CombineWorkoutData ==
    /\ pc = "garmin_loaded"
    /\ \E order \in date_orders(concat_rows(sheets_data, garmin_data)) :
          LET r == combine_workout_data(sheets_data, garmin_data, order)
          IN  /\ workout_data' = r.df
              /\ raised' = r.raised
    /\ pc' = "combined"
    /\ UNCHANGED <<data, activities, sheets_data, sheet_error, garmin_data,
                   filtered_data, streak, weekly_counts, max_weight_prs,
                   max_volume_prs,
                   progress_chart>>

\* load_combined_data with both sources selected: the sheet table if it is
\* not empty, merged with the tracker table if that is not empty either, and
\* the tracker table as it is when the sheet table is empty
LoadCombinedData ==
    /\ pc = "garmin_loaded"
    /\ IF empty(garmin_data)
       THEN workout_data' = (IF empty(sheets_data) THEN EmptyDataFrame ELSE sheets_data)
       ELSE IF empty(sheets_data)
       THEN workout_data' = garmin_data
       ELSE \E order \in date_orders(concat_rows(sheets_data, garmin_data)) :
               workout_data' = combine_workout_data(sheets_data, garmin_data, order).df
    /\ pc' = "loaded"
    /\ UNCHANGED <<data, activities, sheets_data, sheet_error, garmin_data,
                   raised, filtered_data, streak, weekly_counts,
                   max_weight_prs, max_volume_prs,
                   progress_chart>>

\* main: nothing to show for an empty table, else the rows from the chosen
\* first day on
FilterData ==
    /\ pc = "loaded"
    /\ IF empty(workout_data)
       THEN /\ pc' = "no_data"
            /\ UNCHANGED filtered_data
       ELSE /\ pc' = "filtered"
            /\ \E lo \in FilterStarts : filtered_data' = filter_rows(workout_data, lo)
    /\ UNCHANGED <<data, activities, sheets_data, sheet_error, garmin_data,
                   workout_data, raised, streak, weekly_counts, max_weight_prs,
                   max_volume_prs,
                   progress_chart>>

\* streak_count, weekly_counts = calculate_streak(filtered_data)
CalculateStreak ==
    /\ pc = "filtered"
    /\ LET r == calculate_streak(filtered_data)
       IN  /\ filtered_data' = r.df
           /\ streak' = r.streak
           /\ weekly_counts' = r.weekly_counts
           /\ raised' = r.raised
    /\ pc' = "streak_done"
    /\ UNCHANGED <<data, activities, sheets_data, sheet_error, garmin_data,
                   workout_data, max_weight_prs, max_volume_prs,
                   progress_chart>>

\* progress_chart = create_progress_chart(filtered_data, selected_exercise),
\* after main has read filtered_data['Exercise'] for the select box
CreateProgressChart ==
    /\ pc = "streak_done"
    /\ raised = "none"
    /\ IF "Exercise" \notin filtered_data.cols
       THEN /\ raised' = "KeyError"
            /\ UNCHANGED progress_chart
       ELSE /\ raised' = "none"
            /\ \E exercise_name \in selectable_exercises(filtered_data) :
                  progress_chart' = create_progress_chart(filtered_data, exercise_name)
    /\ pc' = "chart_done"
    /\ UNCHANGED <<data, activities, sheets_data, sheet_error, garmin_data,
                   workout_data, filtered_data, streak, weekly_counts,
                   max_weight_prs, max_volume_prs>>

\* max_weight_prs, max_volume_prs = calculate_pr_table(filtered_data)
CalculatePrTable ==
    /\ pc = "chart_done"
    /\ raised = "none"
    /\ IF pr_table_raises(filtered_data)
       THEN /\ raised' = "KeyError"
            /\ UNCHANGED <<max_weight_prs, max_volume_prs>>
       ELSE /\ raised' = "none"
            /\ max_weight_prs' \in max_weight_tables(pr_rows(filtered_data.rows))
            /\ max_volume_prs' \in max_volume_tables(pr_rows(filtered_data.rows))
    /\ pc' = "done"
    /\ UNCHANGED <<data, activities, sheets_data, sheet_error, garmin_data,
                   workout_data, filtered_data, streak, weekly_counts,
                   progress_chart>>

\* the notation parser and set normalizer on one-row sheets
NextSheet == LoadSheetData
SpecSheet == InitSheet /\ [][NextSheet]_vars

\* the two loaders and the merge, called directly and through
\* load_combined_data
NextMerge ==
    \/ LoadSheetData
    \/ LoadGarminData
    \/ CombineWorkoutData
    \/ LoadCombinedData
SpecMerge == InitMerge /\ [][NextMerge]_vars

\* the whole run of main up to the metrics
NextMetrics ==
    \/ LoadSheetData
    \/ LoadGarminData
    \/ LoadCombinedData
    \/ FilterData
    \/ CalculateStreak
    \/ CreateProgressChart
    \/ CalculatePrTable
SpecMetrics == InitMetrics /\ [][NextMetrics]_vars

-----------------------------------------------------------------------------
(* What the specification says of a notation, stated on the text itself *)

\* the positions around the items of a notation: before its first symbol,
\* at each ';', after its last symbol
RefBreaks(s) == {0, Len(s) + 1} \cup {i \in DOMAIN s : s[i] = ";"}

RefNth(S, k) == CHOOSE x \in S : Cardinality({y \in S : y < x}) = k - 1

\* the ';'-separated tokens, left to right
RefTokens(s) ==
    [k \in 1..(Cardinality(RefBreaks(s)) - 1) |->
        SubSeq(s, RefNth(RefBreaks(s), k) + 1, RefNth(RefBreaks(s), k + 1) - 1)]

\* a token without the blanks around it
RefTrim(t) ==
    LET ink == {i \in DOMAIN t : t[i] # " "}
    IN  IF ink = {} THEN <<>>
        ELSE SubSeq(t, CHOOSE i \in ink : \A j \in ink : i <= j,
                       CHOOSE i \in ink : \A j \in ink : i >= j)

RefIsDigits(t) == Len(t) > 0 /\ \A i \in DOMAIN t : t[i] \in DigitSyms

\* the number a run of digits writes
RefNat(t) ==
    LET sum[k \in 0..Len(t)] ==
            IF k = 0 THEN 0 ELSE sum[k - 1] + DigitVal(t[k]) * Pow10(Len(t) - k)
    IN  sum[Len(t)]

\* the text of a cell that is not missing
RefText(x) == IF x.t = "str" THEN x.s ELSE IntStr(x.n.m)

RefBlank(x) == x.t = "nan" \/ \A i \in DOMAIN RefText(x) : RefText(x)[i] = " "

RefHasBody(t) == \E i \in DOMAIN t : t[i] \in {"Body", "body"}
RefHasBand(t) == \E i \in DOMAIN t : t[i] \in {"Band", "band"}

\* a non-negative decimal number: digits with at most one '.', beside or
\* between them
RefIsDecimal(t) ==
    /\ \E i \in DOMAIN t : t[i] \in DigitSyms
    /\ \A i \in DOMAIN t : t[i] \in DigitSyms \cup {"."}
    /\ Cardinality({i \in DOMAIN t : t[i] = "."}) <= 1

RefDecimal(t) ==
    LET digits == SelectSeq(t, LAMBDA c : c \in DigitSyms)
        after == IF \E i \in DOMAIN t : t[i] = "."
                 THEN Len(t) - (CHOOSE i \in DOMAIN t : t[i] = ".")
                 ELSE 0
    IN  Dec(RefNat(digits), after)

\* the number of sets a Reps cell announces
RefSetCount(x) == IF RefBlank(x) THEN 0 ELSE Len(RefTokens(RefText(x)))

\* the tokens of a notation that are pure non-negative integers, as numbers
RefReps(x) ==
    IF RefBlank(x) THEN <<>>
    ELSE LET toks == RefTokens(RefText(x))
             kept == SelectSeq([k \in DOMAIN toks |-> RefTrim(toks[k])], RefIsDigits)
         IN  [k \in DOMAIN kept |-> RefNat(kept[k])]

\* the per-token weights: 120 or 130 for a body token, its value for a
\* decimal number, nothing for any other token
RefTokenWeights(x) ==
    IF RefBlank(x) THEN <<>>
    ELSE LET toks == RefTokens(RefText(x))
             kept == SelectSeq([k \in DOMAIN toks |-> RefTrim(toks[k])],
                               LAMBDA t : RefHasBody(t) \/ RefIsDecimal(t))
         IN  [k \in DOMAIN kept |->
                 IF RefHasBody(kept[k])
                 THEN (IF RefHasBand(kept[k]) THEN Int2Dec(130) ELSE Int2Dec(120))
                 ELSE RefDecimal(kept[k])]

\* the sheet was loaded and row i of it is the normalized record i
Loaded(i) == pc = "sheet_loaded" /\ i \in DOMAIN sheets_data.rows

-----------------------------------------------------------------------------
(* Claims about the notation parser and the set normalizer (SpecSheet) *)

\* C3: a Weight notation of exactly one token that contains "body", given
\* for more than one set, is parsed to one weight per set, each 80 if the
\* token also contains "band" and 70 otherwise.
C3_BodyBroadcast ==
    pc = "sheet_loaded" =>
        \A i \in DOMAIN data :
            LET x == data[i].Weight
                n == RefSetCount(data[i].Reps)
            IN  (/\ x.t = "str"
                 /\ Len(RefTokens(x.s)) = 1
                 /\ RefHasBody(x.s)
                 /\ n > 1)
                => /\ Loaded(i)
                   /\ Len(sheets_data.rows[i].weights_list) = n
                   /\ \A k \in 1..n :
                         sheets_data.rows[i].weights_list[k] =
                             (IF RefHasBand(x.s) THEN Int2Dec(80) ELSE Int2Dec(70))

\* C3 witness: "Body+Band" given for three sets was parsed to [80, 80, 80]
C3_Witness ==
    /\ pc = "sheet_loaded"
    /\ data[1].Weight = Str(<<"Body", "+", "Band">>)
    /\ RefSetCount(data[1].Reps) = 3
    /\ sheets_data.rows[1].weights_list = <<Int2Dec(80), Int2Dec(80), Int2Dec(80)>>

\* C4: a Weight notation of two or more tokens, or one given for at most
\* one set, is parsed token by token, in order: 120 for a token containing
\* "body" (130 with "band"), its value for a non-negative decimal number,
\* one element per such token and none for any other.
C4_PerToken ==
    pc = "sheet_loaded" =>
        \A i \in DOMAIN data :
            LET x == data[i].Weight
            IN  (\/ RefSetCount(data[i].Reps) <= 1
                 \/ (~RefBlank(x) /\ Len(RefTokens(RefText(x))) >= 2))
                => /\ Loaded(i)
                   /\ sheets_data.rows[i].weights_list = RefTokenWeights(x)

RefIsProduct(v, r, w) ==
    LET e == IF v.e > w.e THEN v.e ELSE w.e
    IN  v.m * Pow10(e - v.e) = r * w.m * Pow10(e - w.e)

\* t is the sum of the decimals of vs, added up from the first on
RefSum(vs) ==
    LET acc[k \in 0..Len(vs)] ==
            IF k = 0 THEN Int2Dec(0) ELSE DecAdd(vs[k], acc[k - 1])
    IN  acc[Len(vs)]

\* C6: a normalized row has min(len(R), len(W)) per-set volumes, the i-th
\* being R[i] * W[i]; its total volume is their sum; its max weight is the
\* largest element of the whole of W, or 0 when W is empty.
C6_Normalize ==
    \A i \in DOMAIN data :
        Loaded(i) =>
            LET row == sheets_data.rows[i]
                R == row.reps_list
                W == row.weights_list
                V == row.volume_per_set
            IN  /\ Len(V) = (IF Len(R) < Len(W) THEN Len(R) ELSE Len(W))
                /\ \A k \in DOMAIN V : RefIsProduct(V[k], R[k], W[k])
                /\ row.total_volume = RefSum(V)
                /\ IF W = <<>> THEN row.max_weight = Int2Dec(0)
                   ELSE /\ \E k \in DOMAIN W : row.max_weight = W[k]
                        /\ \A k \in DOMAIN W : ~DecLess(row.max_weight, W[k])

\* C6 witness: a row with fewer reps than weights, whose largest weight is
\* in the unmatched tail
C6_Witness ==
    /\ Loaded(1)
    /\ LET row == sheets_data.rows[1]
       IN  /\ Len(row.reps_list) = 1
           /\ Len(row.weights_list) = 2
           /\ DecLess(row.weights_list[1], row.weights_list[2])
           /\ row.max_weight = row.weights_list[2]
           /\ Len(row.volume_per_set) = 1
           /\ row.total_volume = row.volume_per_set[1]
           /\ row.total_volume # Int2Dec(0)

\* C10: whatever the notations, load_sheet_data reports no error and
\* returns one normalized row per sheet row.
C10_NoFailure ==
    (pc = "sheet_loaded" /\ data # <<>>) =>
        /\ ~sheet_error
        /\ Len(sheets_data.rows) = Len(data)

-----------------------------------------------------------------------------
(* Claims about the tracker source and the merge (SpecMerge) *)

RefKey(d, ex, reps, weight) == <<d, ex, reps, weight>>

\* the keys of the sheet table's rows and of the tracker table's rows
RefSheetKeys ==
    {RefKey(r.date, r.Exercise, r.Reps, r.Weight) :
        r \in {sheets_data.rows[i] : i \in DOMAIN sheets_data.rows}}

RefTrackerKeys ==
    {RefKey(g.date, g.exercise_name, g.reps, g.weight) :
        g \in {garmin_data.rows[i] : i \in DOMAIN garmin_data.rows}}

Merged == pc \in {"combined", "loaded"}

\* C2: the merge of a non-empty sheet table and a non-empty tracker table
\* has exactly one row for each key (date, Exercise, Reps, Weight) of a row
\* of either table.
C2_OneRowPerKey ==
    (Merged /\ ~empty(sheets_data) /\ ~empty(garmin_data)) =>
        /\ raised = "none"
        /\ LET rows == workout_data.rows
               key(i) == RefKey(rows[i].date, rows[i].Exercise,
                                rows[i].Reps, rows[i].Weight)
           IN  /\ \A i, j \in DOMAIN rows : i # j => key(i) # key(j)
               /\ {key(i) : i \in DOMAIN rows} = RefSheetKeys \cup RefTrackerKeys

\* C2 witness: a sheet row and a tracker row with the same key were merged
\* into one row
C2_Witness ==
    /\ pc = "combined"
    /\ RefSheetKeys \cap RefTrackerKeys # {}
    /\ Cardinality(RefSheetKeys) = Len(sheets_data.rows)
    /\ Cardinality(RefTrackerKeys) = Len(garmin_data.rows)
    /\ Len(workout_data.rows) < Len(sheets_data.rows) + Len(garmin_data.rows)

\* the weight a tracker set has in pounds: as reported for a POUND set,
\* times 2.20462 for any other unit
RefPounds(set) ==
    IF set.weightValue.t = "nan" THEN set.weightValue
    ELSE IF set.weightUnit = "POUND" THEN set.weightValue
    ELSE Num(DecMul(set.weightValue.n, Dec(220462, 5)))

\* C8: every set of a strength activity is in the tracker table with its
\* weight in pounds.
C8_TrackerPounds ==
    pc = "garmin_loaded" =>
        \A a \in DOMAIN activities :
            activities[a].typeKey = "STRENGTH_TRAINING" =>
                \A k \in DOMAIN activities[a].exerciseSets :
                    LET set == activities[a].exerciseSets[k]
                    IN  \E i \in DOMAIN garmin_data.rows :
                            /\ garmin_data.rows[i].date = activities[a].date
                            /\ garmin_data.rows[i].exercise_name = set.exerciseName
                            /\ garmin_data.rows[i].reps = set.repetitionCount
                            /\ garmin_data.rows[i].weight = RefPounds(set)

\* C9: combine_workout_data raises nothing; with an empty tracker table it
\* returns the sheet table, with an empty sheet table the tracker's rows,
\* with both empty an empty table.
C9_PassThrough ==
    pc = "combined" =>
        /\ raised = "none"
        /\ empty(garmin_data) => workout_data = sheets_data
        /\ (empty(sheets_data) /\ empty(garmin_data)) => empty(workout_data)
        /\ (empty(sheets_data) /\ ~empty(garmin_data)) =>
              /\ Len(workout_data.rows) = Len(garmin_data.rows)
              /\ \A i \in DOMAIN garmin_data.rows :
                    /\ workout_data.rows[i].date = garmin_data.rows[i].date
                    /\ workout_data.rows[i].Exercise = garmin_data.rows[i].exercise_name
                    /\ workout_data.rows[i].Reps = garmin_data.rows[i].reps
                    /\ workout_data.rows[i].Weight = garmin_data.rows[i].weight

\* the rows of the merged table that came from the tracker: they have no
\* sheet Date
RefTrackerRows ==
    {i \in DOMAIN workout_data.rows : workout_data.rows[i].Date.t = "nan"}

RefMerged == pc = "combined" /\ raised = "none" /\ ~empty(garmin_data)

\* C16 as stated: every tracker row the merge processed, also one whose reps
\* or weight is null, has a reps list and a weights list of length exactly
\* 1, so one set, with total_volume = reps * weight and max_weight = weight.
C16_OneSetPerRow ==
    RefMerged =>
        \A i \in RefTrackerRows :
            LET r == workout_data.rows[i]
            IN  /\ Len(r.reps_list) = 1
                /\ Len(r.weights_list) = 1
                /\ Len(r.volume_per_set) = 1
                /\ r.total_volume = DecMul(Int2Dec(r.reps_list[1]), r.weights_list[1])
                /\ r.max_weight = r.weights_list[1]

\* what the amended C16 says of a tracker row r with its lists
RefTrackerLists(r) ==
    LET has_reps == r.Reps.t # "nan"
        has_weight == r.Weight.t # "nan"
    IN  /\ Len(r.reps_list) = (IF has_reps THEN 1 ELSE 0)
        /\ has_reps => Int2Dec(r.reps_list[1]) = r.Reps.n
        /\ Len(r.weights_list) = (IF has_weight THEN 1 ELSE 0)
        /\ has_weight => (r.weights_list[1] = r.Weight.n /\ r.max_weight = r.Weight.n)
        /\ ~has_weight => r.max_weight = Int2Dec(0)
        /\ (has_reps /\ has_weight) =>
              /\ r.volume_per_set = <<DecMul(r.Reps.n, r.Weight.n)>>
              /\ r.total_volume = DecMul(r.Reps.n, r.Weight.n)
        /\ ~(has_reps /\ has_weight) =>
              /\ r.volume_per_set = <<>>
              /\ r.total_volume = Int2Dec(0)

\* C16 as amended: the reps list of a tracker row holds the row's reps, and
\* is empty when the reps are null; the weights list likewise.  A row with
\* both has exactly one set, total_volume = reps * weight and max_weight =
\* weight; a row without one of them has no set and total_volume 0, and its
\* max_weight is the weight if it has one, else 0.  This holds of every
\* tracker row of the table the merge returns, and of every row it
\* processed, also when the row was dropped as a duplicate or the merge
\* raised afterwards.
C16_TrackerLists ==
    /\ RefMerged => \A i \in RefTrackerRows : RefTrackerLists(workout_data.rows[i])
    /\ (pc = "combined" /\ ~empty(garmin_data)) =>
          \A i \in DOMAIN garmin_data.rows :
              RefTrackerLists(garmin_processed_row(garmin_data.rows[i]))

\* C16 witness: the merge returned a tracker row with null reps and one with
\* a null weight, each with one list empty and the other of one item
C16_Witness ==
    /\ RefMerged
    /\ \E i, j \in RefTrackerRows :
          /\ workout_data.rows[i].Reps.t = "nan"
          /\ workout_data.rows[i].reps_list = <<>>
          /\ Len(workout_data.rows[i].weights_list) = 1
          /\ workout_data.rows[j].Weight.t = "nan"
          /\ workout_data.rows[j].weights_list = <<>>
          /\ Len(workout_data.rows[j].reps_list) = 1

-----------------------------------------------------------------------------
(* Claims about the metrics (SpecMetrics) *)

\* the calendar weeks, counted from day 0, that have rows in the table
RefWeeks(rows) == {rows[i].date \div 7 : i \in DOMAIN rows}

RefCount(rows, w) == Cardinality({i \in DOMAIN rows : rows[i].date \div 7 = w})

\* the longest stretch of weeks that have rows, next to one another among
\* them in time, each with at least five rows
RefLongestRun(rows) ==
    LET W == RefWeeks(rows)
        runs == {<<a, b>> \in W \X W :
                    /\ a <= b
                    /\ \A w \in W : (a <= w /\ w <= b) => RefCount(rows, w) >= 5}
        len(r) == Cardinality({w \in W : r[1] <= w /\ w <= r[2]})
    IN  IF runs = {} THEN 0
        ELSE len(CHOOSE r \in runs : \A q \in runs : len(q) <= len(r))

\* C1: the streak is the length of the longest run of adjacent qualifying
\* weeks (at least 5 rows) of the weekly table in ascending (year, week)
\* order, not the run in progress at the end.
C1_LongestRun ==
    (pc = "streak_done" /\ raised = "none") =>
        streak = RefLongestRun(filtered_data.rows)

\* C1 witness: weekly counts 5, 5, 3, 5, 5, 5 gave streak 3
C1_Witness ==
    /\ pc = "streak_done"
    /\ [k \in DOMAIN weekly_counts |-> weekly_counts[k].workout_count]
          = <<5, 5, 3, 5, 5, 5>>
    /\ streak = 3

RefHasLists(df) == {"Exercise", "reps_list", "weights_list"} \subseteq df.cols

\* the number of sets of a row: its paired (reps, weight) items
RefRowSets(r) ==
    IF Len(r.reps_list) < Len(r.weights_list) THEN Len(r.reps_list)
    ELSE Len(r.weights_list)

\* the number of sets dated in calendar week w
RECURSIVE RefWeekSets(_, _)
RefWeekSets(rows, w) ==
    IF rows = <<>> THEN 0
    ELSE (IF rows[1].date \div 7 = w THEN RefRowSets(rows[1]) ELSE 0)
            + RefWeekSets(Tail(rows), w)

\* the longest stretch of weeks that have rows, next to one another among
\* them in time, each with at least five sets
RefLongestSetRun(rows) ==
    LET W == RefWeeks(rows)
        runs == {<<a, b>> \in W \X W :
                    /\ a <= b
                    /\ \A w \in W : (a <= w /\ w <= b) => RefWeekSets(rows, w) >= 5}
        len(r) == Cardinality({w \in W : r[1] <= w /\ w <= r[2]})
    IN  IF runs = {} THEN 0
        ELSE len(CHOOSE r \in runs : \A q \in runs : len(q) <= len(r))

\* C11: the workout_count of each week of the weekly table is the number of
\* sets dated in that week, a sheet row counting one per paired (reps,
\* weight) item, and a week qualifies for the streak exactly when it has at
\* least 5 sets: two rows of three sets in one week make a qualifying week.
C11_SetCount ==
    (pc = "streak_done" /\ raised = "none" /\ RefHasLists(filtered_data)) =>
        /\ Len(weekly_counts) = Cardinality(RefWeeks(filtered_data.rows))
        /\ \A k \in DOMAIN weekly_counts :
              weekly_counts[k].workout_count =
                  RefWeekSets(filtered_data.rows, RefNth(RefWeeks(filtered_data.rows), k))
        /\ streak = RefLongestSetRun(filtered_data.rows)

\* the calendar week, counted from day 0, of row k of the weekly table
RefWeekOf(k) == RefNth(RefWeeks(filtered_data.rows), k)

\* the stretches a..b of the weekly table whose rows all have at least 5 and
\* are each the calendar week right after the row before
RefCalendarRuns ==
    {<<a, b>> \in (DOMAIN weekly_counts) \X (DOMAIN weekly_counts) :
        /\ a <= b
        /\ \A k \in a..b : weekly_counts[k].workout_count >= 5
        /\ \A k \in a..(b - 1) : RefWeekOf(k + 1) = RefWeekOf(k) + 1}

\* C12: the streak counts consecutive calendar weeks: it is the length of
\* the longest stretch of qualifying weeks of the weekly table in which each
\* week is the ISO week right after the one before, so qualifying weeks W1
\* and W3 with no rows in W2 give streak 1.
C12_CalendarWeeks ==
    (pc = "streak_done" /\ raised = "none") =>
        /\ RefCalendarRuns = {} => streak = 0
        /\ RefCalendarRuns # {} =>
              /\ \E r \in RefCalendarRuns : streak = r[2] - r[1] + 1
              /\ \A r \in RefCalendarRuns : streak >= r[2] - r[1] + 1

\* the table has the list columns and none of its rows has a (reps, weight)
\* pair; a table without rows is one such
RefNoPairs(df) ==
    /\ RefHasLists(df)
    /\ \A i \in DOMAIN df.rows : RefRowSets(df.rows[i]) = 0

\* C13: of a filtered table without rows, or without a (reps, weight) pair
\* in any row, calculate_streak gives streak 0 (and, without rows, an empty
\* weekly table), calculate_pr_table gives two empty tables of records, and
\* neither raises an error.
C13_EmptyIsValid ==
    /\ (pc = "streak_done" /\ RefNoPairs(filtered_data)) =>
          /\ raised = "none"
          /\ streak = 0
          /\ filtered_data.rows = <<>> => weekly_counts = <<>>
    /\ (pc = "done" /\ RefNoPairs(filtered_data)) =>
          /\ raised = "none"
          /\ DOMAIN max_weight_prs = {}
          /\ DOMAIN max_volume_prs = {}

\* the (date, max_weight, total_volume) values of the rows of exercise ex
RefTriples(rows, ex) ==
    LET of_ex == SelectSeq(rows, LAMBDA r : r.Exercise = ex)
    IN  [i \in DOMAIN of_ex |->
            <<of_ex[i].date, of_ex[i].max_weight, of_ex[i].total_volume>>]

\* the (date, max_weight, total_volume) points of the chart's two traces
RefPoints(chart) ==
    [k \in DOMAIN chart.max_weight |->
        <<chart.max_weight[k].x, chart.max_weight[k].y, chart.total_volume[k].y>>]

RefTimes(seq, t) == Cardinality({i \in DOMAIN seq : seq[i] = t})

\* C14: the series create_progress_chart builds for an exercise has exactly
\* the (date, max_weight, total_volume) values of that exercise's rows, each
\* as often as the table has it, in non-decreasing date order whatever the
\* order of the table's rows; of a table without rows of the exercise the
\* result is None, and no error is raised.
C14_ProgressSeries ==
    (pc = "chart_done" /\ "Exercise" \in filtered_data.cols) =>
        /\ raised = "none"
        /\ progress_chart.figure <=> filtered_data.rows # <<>>
        /\ progress_chart.figure =>
              LET points == RefPoints(progress_chart)
                  triples == RefTriples(filtered_data.rows, progress_chart.title)
              IN  /\ Len(progress_chart.total_volume) = Len(progress_chart.max_weight)
                  /\ \A k \in DOMAIN points :
                        progress_chart.total_volume[k].x = progress_chart.max_weight[k].x
                  /\ Len(points) = Len(triples)
                  /\ \A k \in DOMAIN triples :
                        RefTimes(points, triples[k]) = RefTimes(triples, triples[k])
                  /\ \A k, l \in DOMAIN points : k < l => points[k][1] <= points[l][1]

\* C15: no metric or merge entry point changes a table passed to it: across
\* the call of combine_workout_data the sheet and the tracker table, and
\* across the calls of calculate_streak, create_progress_chart and
\* calculate_pr_table the filtered table, keep their columns, rows and
\* values.
C15_InputsKept ==
    [][/\ pc = "garmin_loaded" =>
             (sheets_data' = sheets_data /\ garmin_data' = garmin_data)
       /\ pc \in {"filtered", "streak_done", "chart_done"} =>
             filtered_data' = filtered_data]_vars

\* the sets of an exercise in the table: (reps, weight, date) of every pair
RefSets(df, ex) ==
    UNION {{<<df.rows[i].reps_list[k], df.rows[i].weights_list[k], df.rows[i].date>> :
               k \in 1..(IF Len(df.rows[i].reps_list) < Len(df.rows[i].weights_list)
                         THEN Len(df.rows[i].reps_list)
                         ELSE Len(df.rows[i].weights_list))} :
           i \in {j \in DOMAIN df.rows : df.rows[j].Exercise = ex}}

RefExercises(df) ==
    {ex \in {df.rows[i].Exercise : i \in DOMAIN df.rows} : RefSets(df, ex) # {}}

RefVolume(set) == DecMul(Int2Dec(set[1]), set[2])

\* C7: for a table with at least one (reps, weight) pair, each table of
\* records has exactly one record per exercise that has a pair; the record
\* is a set of that exercise, of the largest weight (of the largest
\* reps * weight) among the exercise's sets.
C7_PersonalRecords ==
    (pc = "done" /\ RefHasLists(filtered_data) /\ RefExercises(filtered_data) # {}) =>
        /\ raised = "none"
        /\ DOMAIN max_weight_prs = RefExercises(filtered_data)
        /\ DOMAIN max_volume_prs = RefExercises(filtered_data)
        /\ \A ex \in RefExercises(filtered_data) :
              LET sets == RefSets(filtered_data, ex)
                  w == max_weight_prs[ex]
                  v == max_volume_prs[ex]
              IN  /\ <<w.Reps, w.Weight, w.Date>> \in sets
                  /\ \A q \in sets : ~DecLess(w.Weight, q[2])
                  /\ <<v.Reps, v.Weight, v.Date>> \in sets
                  /\ \A q \in sets :
                        ~DecLess(RefVolume(<<v.Reps, v.Weight, v.Date>>), RefVolume(q))

\* C7 witness: of the sets 5 x 225 and 10 x 135 the weight record is the
\* first and the volume record the second
C7_Witness ==
    /\ pc = "done"
    /\ raised = "none"
    /\ "Squat" \in DOMAIN max_weight_prs
    /\ max_weight_prs["Squat"].Reps = 5
    /\ max_weight_prs["Squat"].Weight = Int2Dec(225)
    /\ max_volume_prs["Squat"].Reps = 10
    /\ max_volume_prs["Squat"].Weight = Int2Dec(135)
    /\ max_volume_prs["Squat"].Volume = Int2Dec(1350)

====
